---- MODULE Spec2Model ----
(***************************************************************************)
(* Model of streamlit_app.py: the cached store access (get_db_connection,  *)
(* fetch_data, the refresh button), the period grouping                    *)
(* (get_period_groups), the year filter (filter_df_by_years) and the       *)
(* correlation section of the page script.                                 *)
(***************************************************************************)
EXTENDS Integers, Sequences, FiniteSets, TLC

VARIABLES
    \* get_period_groups: arguments, locals and position
    years, group_size, min_year, max_year, current_year, groups, pc,
    \* filter_df_by_years: the frame and the years passed, the frame returned,
    \* the frame returned when the result is filtered again, and the position
    df, selected_years_final, df_filtered, df_refiltered, fpc,
    \* correlation section: the filtered frames by indicator name, the two
    \* selections, the merged frame, the two columns correlated, the
    \* coefficient, what the section displayed, and the previous render
    indicator_options_corr, indicator1_name, indicator2_name, df_merged,
    col_name1, col_name2, correlation, shown, prev,
    \* store access: whether the five credentials are set, the cached result
    \* of get_db_connection, whether the cached connection still executes
    \* queries, the cached results of fetch_data by query, what the store
    \* holds now, the position of the script run, whether this run is the
    \* rerun that follows a refresh, whether a query failed earlier in this
    \* run, the last fetch_data call, and the connection attempts made since
    \* the caches were last cleared
    credentials, resource_cache, conn_usable, data_cache, store, step,
    after_refresh, failed_in_run, last, attempts

gvars == <<years, group_size, min_year, max_year, current_year, groups, pc>>

fvars == <<df, selected_years_final, df_filtered, df_refiltered, fpc>>

kvars == <<indicator_options_corr, indicator1_name, indicator2_name, df_merged,
           col_name1, col_name2, correlation, shown, prev>>

cvars == <<credentials, resource_cache, conn_usable, data_cache, store, step,
           after_refresh, failed_in_run, last, attempts>>

vars == <<gvars, fvars, kvars, cvars>>

(***************************************************************************)
(* Bounds of the model                                                     *)
(***************************************************************************)
FirstYear == 2019
NumYears == 4
MaxGroupSize == 3
MaxRows == 3
MaxDays == 3
DaysPerYear == 2
NumQueries == 2

YearSet == FirstYear .. (FirstYear + NumYears - 1)

(***************************************************************************)
(* Python helpers                                                          *)
(***************************************************************************)
Max2(a, b) == IF a >= b THEN a ELSE b

SetMin(S) == CHOOSE x \in S : \A y \in S : x <= y

SetMax(S) == CHOOSE x \in S : \A y \in S : x >= y

\* list(range(a, b)): a, a+1, ..., b-1 (empty when b <= a)
range(a, b) == [k \in 1 .. (b - a) |-> a + k - 1]

SeqRange(s) == {s[k] : k \in 1 .. Len(s)}

(***************************************************************************)
(* Data frames.  A frame is its column names and its rows; a row maps each *)
(* column name to a cell.  data_referencia cells are days (integers).      *)
(* Every other cell carries its kind: a number, NaN, a string that reads   *)
(* as a number, or any other text.                                         *)
(***************************************************************************)
Num(n) == [k |-> "num", v |-> n]

NaN == [k |-> "nan", v |-> 0]

NumStr(n) == [k |-> "str", v |-> n]

Text == [k |-> "txt", v |-> 0]

DataFrame(cols, rws) == [columns |-> cols, rows |-> rws]

\* pd.DataFrame()
EmptyFrame == DataFrame(<<>>, <<>>)

\* df.empty: no rows or no columns
empty(d) == Len(d.rows) = 0 \/ Len(d.columns) = 0

(***************************************************************************)
(* get_period_groups(years, group_size)                                    *)
(***************************************************************************)
\* line 74: if not years or group_size < 1
GuardNoSizeCheck(ys, gs) == ys = {}

ReturnsEmpty(ys, gs) == ys = {} \/ gs < 1

\* line 81: start_year = max(min_year, current_year - (group_size - 1))
StartYearOffByOne(mn, cy, gs) == Max2(mn, cy - gs)

start_year(mn, cy, gs) == Max2(mn, cy - (gs - 1))

\* line 82: group_label = f"{start_year}-{current_year}"
GroupLabelEndFirst(sy, cy) == ToString(cy) \o "-" \o ToString(sy)

group_label(sy, cy) == ToString(sy) \o "-" \o ToString(cy)

\* line 84: current_year -= group_size
next_current_year(cy, gs) == cy - gs

\* No run of the loop appends more groups than there are years in
\* min_year..max_year; the cap keeps a non-advancing loop finite.
MaxGroups == NumYears + 1

\* lines 73-79: the call, up to the loop's entry
get_period_groups_call(ys, gs) ==
    /\ pc \in {"idle", "done"}
    /\ years' = ys
    /\ group_size' = gs
    /\ groups' = <<>>
    /\ IF ReturnsEmpty(ys, gs)
       THEN /\ pc' = "done"
            /\ min_year' = 0
            /\ max_year' = 0
            /\ current_year' = 0
       ELSE /\ min_year' = SetMin(ys)
            /\ max_year' = SetMax(ys)
            /\ current_year' = SetMax(ys)
            /\ pc' = "loop"
    /\ UNCHANGED <<fvars, kvars, cvars>>

\* lines 80-84: one iteration of the while loop
get_period_groups_loop ==
    /\ pc = "loop"
    /\ current_year >= min_year
    /\ Len(groups) < MaxGroups
    /\ LET sy == start_year(min_year, current_year, group_size)
       IN  groups' = Append(groups,
                        <<group_label(sy, current_year), range(sy, current_year + 1)>>)
    /\ current_year' = next_current_year(current_year, group_size)
    /\ UNCHANGED <<years, group_size, min_year, max_year, pc>>
    /\ UNCHANGED <<fvars, kvars, cvars>>

\* line 85: the loop condition fails, return groups
get_period_groups_return ==
    /\ pc = "loop"
    /\ current_year < min_year
    /\ pc' = "done"
    /\ UNCHANGED <<years, group_size, min_year, max_year, current_year, groups>>
    /\ UNCHANGED <<fvars, kvars, cvars>>

GroupsIdle ==
    /\ years = {}
    /\ group_size = 0
    /\ min_year = 0
    /\ max_year = 0
    /\ current_year = 0
    /\ groups = <<>>
    /\ pc = "idle"

GroupsCall == \E ys \in SUBSET YearSet, gs \in -1 .. MaxGroupSize :
                 get_period_groups_call(ys, gs)

GroupsNext ==
    \/ GroupsCall
    \/ get_period_groups_loop
    \/ get_period_groups_return

(***************************************************************************)
(* filter_df_by_years(df, years)                                           *)
(***************************************************************************)
\* line 172: pd.to_numeric(cell, errors="coerce")
to_numeric(c) ==
    CASE c.k = "num" -> c
      [] c.k = "str" -> Num(c.v)
      [] OTHER       -> NaN

\* line 173: Series.isin(years), one cell
isin(c, ys) == c.k = "num" /\ c.v \in ys

\* line 173: sort_values(by=col), ascending, rows with distinct keys
sort_values_none(rws, col) == rws

sort_values(rws, col) ==
    LET n == Len(rws)
        rank(i) == Cardinality({j \in 1 .. n : rws[j][col] < rws[i][col]}) + 1
    IN  [p \in 1 .. n |-> rws[CHOOSE i \in 1 .. n : rank(i) = p]]

\* lines 168-173
filter_df_by_years(d, ys) ==
    IF empty(d) \/ "ano" \notin SeqRange(d.columns)
    THEN d
    ELSE LET df_copy == [i \in 1 .. Len(d.rows) |->
                            [d.rows[i] EXCEPT !["ano"] = to_numeric(@)]]
             kept == SelectSeq(df_copy, LAMBDA r : isin(r["ano"], ys))
         IN  DataFrame(d.columns, sort_values(kept, "data_referencia"))

\* The frames the filter is applied to: up to MaxRows observations on
\* distinct days, in any order, with or without the ano column.
FilterYears == {FirstYear, FirstYear + 1}

AnoCells == {Num(y) : y \in FilterYears} \cup {NaN, NumStr(FirstYear), Text}

DistinctDays(rws) ==
    \A i, j \in 1 .. Len(rws) :
        i # j => rws[i]["data_referencia"] # rws[j]["data_referencia"]

RowsWithAno ==
    {[data_referencia |-> t, valor |-> Num(10 * t), ano |-> a] :
        t \in 1 .. MaxRows, a \in AnoCells}

RowsWithoutAno ==
    {[data_referencia |-> t, valor |-> Num(10 * t)] : t \in 1 .. MaxRows}

SeqsOf(S) == {rws \in UNION {[1 .. n -> S] : n \in 0 .. MaxRows} : DistinctDays(rws)}

FilterInputs ==
    {DataFrame(<<"data_referencia", "valor", "ano">>, rws) : rws \in SeqsOf(RowsWithAno)}
    \cup
    {DataFrame(<<"data_referencia", "valor">>, rws) : rws \in SeqsOf(RowsWithoutAno)}

FilterIdle ==
    /\ df = EmptyFrame
    /\ selected_years_final = {}
    /\ df_filtered = EmptyFrame
    /\ df_refiltered = EmptyFrame
    /\ fpc = "idle"

\* lines 175-179: one call, filter_df_by_years(df, selected_years_final)
FilterOnce ==
    /\ fpc = "start"
    /\ df_filtered' = filter_df_by_years(df, selected_years_final)
    /\ fpc' = "once"
    /\ UNCHANGED <<df, selected_years_final, df_refiltered>>
    /\ UNCHANGED <<gvars, kvars, cvars>>

\* the result of the call passed to the filter again, with the same years
FilterAgain ==
    /\ fpc = "once"
    /\ df_refiltered' = filter_df_by_years(df_filtered, selected_years_final)
    /\ fpc' = "twice"
    /\ UNCHANGED <<df, selected_years_final, df_filtered>>
    /\ UNCHANGED <<gvars, kvars, cvars>>

(***************************************************************************)
(* The correlation section (lines 259-294)                                 *)
(***************************************************************************)
\* line 63: df["ano"] = df["data_referencia"].dt.year, on a calendar of
\* DaysPerYear days a year that starts at FirstYear
year(t) == FirstYear + ((t - 1) \div DaysPerYear)

\* lines 60-64: the frame fetch_data returns for a query that yields the
\* observations obs (day -> value), ORDER BY data_referencia ASC; with no
\* observation the frame stands for the pd.DataFrame() of lines 68-70
fetched_frame(col, obs) ==
    LET days == DOMAIN obs
        rws == [p \in 1 .. Cardinality(days) |->
                   LET t == CHOOSE d \in days :
                               Cardinality({e \in days : e < d}) = p - 1
                   IN  (col :> Num(obs[t])) @@
                       [data_referencia |-> t, ano |-> Num(year(t))]]
    IN  IF days = {} THEN EmptyFrame
        ELSE DataFrame(<<"data_referencia", col, "ano">>, rws)

\* lines 278-279: df.set_index(col)
set_index(d, col) ==
    [columns |-> SelectSeq(d.columns, LAMBDA c : c # col),
     index   |-> [i \in 1 .. Len(d.rows) |-> d.rows[i][col]],
     rows    |-> [i \in 1 .. Len(d.rows) |->
                    [c \in SeqRange(d.columns) \ {col} |-> d.rows[i][c]]]]

\* line 280: pd.merge(l, r, left_index=True, right_index=True, how="inner"),
\* indexes without repeated keys.  The result keeps the left frame's order;
\* its columns are the left frame's, then the right frame's; a name both
\* frames hold gets the suffix _x on the left and _y on the right.
merge_columns(l, r) ==
    LET both == SeqRange(l.columns) \cap SeqRange(r.columns)
    IN  [i \in 1 .. Len(l.columns) |->
            IF l.columns[i] \in both THEN l.columns[i] \o "_x" ELSE l.columns[i]]
        \o
        [i \in 1 .. Len(r.columns) |->
            IF r.columns[i] \in both THEN r.columns[i] \o "_y" ELSE r.columns[i]]

merge(l, r) ==
    LET both == SeqRange(l.columns) \cap SeqRange(r.columns)
        lname(c) == IF c \in both THEN c \o "_x" ELSE c
        rname(c) == IF c \in both THEN c \o "_y" ELSE c
        lnames == {lname(c) : c \in SeqRange(l.columns)}
        rnames == {rname(c) : c \in SeqRange(r.columns)}
        hit == SelectSeq([i \in 1 .. Len(l.index) |-> i],
                         LAMBDA i : \E j \in 1 .. Len(r.index) : r.index[j] = l.index[i])
        match(i) == CHOOSE j \in 1 .. Len(r.index) : r.index[j] = l.index[i]
    IN  [columns |-> merge_columns(l, r),
         index   |-> [p \in 1 .. Len(hit) |-> l.index[hit[p]]],
         rows    |-> [p \in 1 .. Len(hit) |->
                        [c \in lnames \cup rnames |->
                            IF c \in lnames
                            THEN l.rows[hit[p]][CHOOSE o \in SeqRange(l.columns) : lname(o) = c]
                            ELSE r.rows[match(hit[p])][CHOOSE o \in SeqRange(r.columns) : rname(o) = c]]]]

\* line 281: not df_merged.empty and len(df_merged) > 1
enough_rows_one(m) == Len(m.rows) > 0

enough_rows(m) == ~empty(m) /\ Len(m.rows) > 1

RECURSIVE SumOver(_, _)
SumOver(f, n) == IF n = 0 THEN 0 ELSE f[n] + SumOver(f, n - 1)

RECURSIVE GCD(_, _)
GCD(a, b) == IF b = 0 THEN a ELSE GCD(b, a % b)

\* line 284: Series.corr, Pearson's coefficient cov(x, y) / (sd(x) * sd(y))
\* of two columns of numbers.  With n rows it is
\*   (n*Sxy - Sx*Sy) / sqrt((n*Sxx - Sx^2) * (n*Syy - Sy^2)),
\* kept exactly: its sign and its square as a fraction in lowest terms.  It is
\* NaN when either column has no variance.
corr(x, y) ==
    LET n   == Len(x)
        Sx  == SumOver(x, n)
        Sy  == SumOver(y, n)
        Sxy == SumOver([i \in 1 .. n |-> x[i] * y[i]], n)
        Sxx == SumOver([i \in 1 .. n |-> x[i] * x[i]], n)
        Syy == SumOver([i \in 1 .. n |-> y[i] * y[i]], n)
        N   == n * Sxy - Sx * Sy
        D   == (n * Sxx - Sx * Sx) * (n * Syy - Sy * Sy)
        g   == GCD(N * N, D)
    IN  IF D = 0 THEN [nan |-> TRUE, sgn |-> 0, num |-> 0, den |-> 1]
        ELSE [nan |-> FALSE,
              sgn |-> IF N > 0 THEN 1 ELSE IF N < 0 THEN -1 ELSE 0,
              num |-> (N * N) \div g,
              den |-> D \div g]

\* df_merged[c]: one column of the merged frame, as numbers
column(m, c) == [i \in 1 .. Len(m.rows) |-> m.rows[i][c].v]

NoCoefficient == [nan |-> TRUE, sgn |-> 0, num |-> 0, den |-> 1]

NoFrame == [columns |-> <<>>, index |-> <<>>, rows |-> <<>>]

\* line 266: the indicators whose filtered frame is not empty
valid_indicators_corr == {name \in DOMAIN indicator_options_corr :
                             ~empty(indicator_options_corr[name])}

Remember == [indicator1_name |-> indicator1_name,
             indicator2_name |-> indicator2_name,
             correlation |-> correlation,
             shown |-> shown]

\* lines 268-292: two indicators selected, merged and correlated
CorrelationSelected(name1, name2) ==
    /\ Cardinality(valid_indicators_corr) >= 2
    /\ name1 \in valid_indicators_corr
    /\ name2 \in valid_indicators_corr \ {name1}
    /\ indicator1_name' = name1
    /\ indicator2_name' = name2
    /\ LET df1 == set_index(indicator_options_corr[name1], "data_referencia")
           df2 == set_index(indicator_options_corr[name2], "data_referencia")
           m   == merge(df1, df2)
       IN  /\ df_merged' = m
           /\ IF enough_rows(m)
              THEN /\ col_name1' = m.columns[1]
                   /\ col_name2' = m.columns[2]
                   /\ correlation' = corr(column(m, m.columns[1]), column(m, m.columns[2]))
                   /\ shown' = "metric"
              ELSE /\ col_name1' = "-"
                   /\ col_name2' = "-"
                   /\ correlation' = NoCoefficient
                   /\ shown' = IF Len(m.rows) <= 1
                               THEN "warning_insufficient_common_data"
                               ELSE "warning_no_common_dates"
    /\ prev' = Remember
    /\ UNCHANGED indicator_options_corr
    /\ UNCHANGED <<gvars, fvars, cvars>>

\* lines 293-294: fewer than two indicators have data
CorrelationUnavailable ==
    /\ Cardinality(valid_indicators_corr) < 2
    /\ shown' = "warning_insufficient_indicators"
    /\ indicator1_name' = "-"
    /\ indicator2_name' = "-"
    /\ df_merged' = NoFrame
    /\ col_name1' = "-"
    /\ col_name2' = "-"
    /\ correlation' = NoCoefficient
    /\ prev' = Remember
    /\ UNCHANGED indicator_options_corr
    /\ UNCHANGED <<gvars, fvars, cvars>>

\* lines 259-265: the names offered and the value column of each
ValueColumn == ("Selic (% a.a.)" :> "selic") @@ ("IPCA (Indice)" :> "ipca")

IndicatorNames == DOMAIN ValueColumn

\* The series a query can yield: a low or a high value on each day of a
\* subset of 1..MaxDays.  No day gives the empty frame of a failed fetch.
SeriesSet == UNION {[days -> {1, 2}] : days \in SUBSET (1 .. MaxDays)}

AllYears == {year(t) : t \in 1 .. MaxDays}

CorrIdle ==
    /\ indicator_options_corr = <<>>
    /\ indicator1_name = "-"
    /\ indicator2_name = "-"
    /\ df_merged = NoFrame
    /\ col_name1 = "-"
    /\ col_name2 = "-"
    /\ correlation = NoCoefficient
    /\ shown = "nothing"
    /\ prev = [indicator1_name |-> "-", indicator2_name |-> "-",
               correlation |-> NoCoefficient, shown |-> "nothing"]

CorrelationSection ==
    \E name1, name2 \in IndicatorNames : CorrelationSelected(name1, name2)

(***************************************************************************)
(* Store access: get_db_connection, fetch_data, the refresh button         *)
(***************************************************************************)
\* line 54: @st.cache_data(ttl=3600)
TTL == 3600

\* The clock advances in steps of half the time to live.
HalfTTL == TTL \div 2

\* lines 98-108: the queries the script fetches, in the order it fetches
\* them; the model runs the first NumQueries of the five
Queries == 1 .. NumQueries

\* What a query reads from the store at a given moment
StoreContents == {"old", "new"}

Absent == [present |-> FALSE, age |-> 0, df |-> "empty"]

\* st.cache_data: an entry answers a call while it is younger than ttl
is_fresh(e) == e.present /\ e.age < TTL

\* line 115: st.cache_data.clear()
cache_data_clear_nothing(cache) == cache

cache_data_clear(cache) == [q \in DOMAIN cache |-> Absent]

\* line 33: @st.cache_resource keeps what get_db_connection returned, a
\* connection or None alike, with no expiry
cache_resource_skip_none(value) == IF value = "None" THEN "empty" ELSE value

cache_resource_store(value) == value

\* lines 34-52: get_db_connection() behind its cache.  cached is the cache's
\* content, reachable whether psycopg2.connect succeeds.  Gives the value
\* returned, the cache afterwards and whether the body ran.
get_db_connection(cached, reachable) ==
    IF cached # "empty"
    THEN [value |-> cached, cache |-> cached, ran |-> FALSE]
    ELSE LET value == IF ~credentials THEN "None"
                      ELSE IF reachable THEN "conn" ELSE "None"
         IN  [value |-> value, cache |-> cache_resource_store(value), ran |-> TRUE]

QueryOutcomes == {"data", "error", "error_connection_lost"}

\* lines 55-70: the body of fetch_data.  outcome is what the store does with
\* the query on a connection that still executes queries: it answers, or
\* the query raises and the connection stays usable, or the query raises
\* and the connection is left unusable (closed by the server, or its
\* transaction aborted and never rolled back).
fetch_data_body(q, reachable, outcome) ==
    LET c == get_db_connection(resource_cache, reachable)
        found == IF data_cache[q].present THEN "expired" ELSE "absent"
        how == IF c.value = "None" THEN "no_connection"
               ELSE IF c.ran THEN (IF outcome = "data" THEN "data" ELSE "query_error")
               ELSE IF ~conn_usable THEN "connection_error"
               ELSE IF outcome = "data" THEN "data" ELSE "query_error"
        usable == IF c.value = "None" THEN TRUE
                  ELSE IF c.ran THEN outcome # "error_connection_lost"
                  ELSE conn_usable /\ outcome # "error_connection_lost"
        result == IF how = "data" THEN store ELSE "empty"
    IN  /\ resource_cache' = c.cache
        /\ attempts' = IF c.ran THEN attempts + 1 ELSE attempts
        /\ conn_usable' = usable
        /\ data_cache' = [data_cache EXCEPT ![q] = [present |-> TRUE, age |-> 0, df |-> result]]
        /\ failed_in_run' = (failed_in_run \/ how \in {"query_error", "connection_error"})
        /\ last' = [found |-> found, how |-> how, df |-> result]

\* lines 104-108: the next fetch_data(query) of the run, behind its cache
fetch_data(q, reachable, outcome) ==
    /\ step = q - 1
    /\ step' = q
    /\ IF is_fresh(data_cache[q])
       THEN /\ last' = [found |-> "fresh", how |-> "hit", df |-> data_cache[q].df]
            /\ UNCHANGED <<resource_cache, attempts, conn_usable, data_cache, failed_in_run>>
       ELSE fetch_data_body(q, reachable, outcome)
    /\ UNCHANGED <<credentials, store, after_refresh>>
    /\ UNCHANGED <<gvars, fvars, kvars>>

Fetch == \E q \in Queries, reachable \in BOOLEAN, outcome \in QueryOutcomes :
            fetch_data(q, reachable, outcome)

NoLast == [found |-> "-", how |-> "-", df |-> "empty"]

\* lines 114-118: the run was started by the refresh button; both caches are
\* cleared and st.rerun() starts the script again.  Nothing above line 114
\* reads the button, so the click is drawn here.  The rerun that st.rerun()
\* starts finds the button unclicked.
RefreshClicked ==
    /\ step = NumQueries
    /\ ~after_refresh
    /\ data_cache' = cache_data_clear(data_cache)
    /\ resource_cache' = "empty"
    /\ conn_usable' = TRUE
    /\ attempts' = 0
    /\ after_refresh' = TRUE
    /\ step' = 0
    /\ failed_in_run' = FALSE
    /\ last' = NoLast
    /\ UNCHANGED <<credentials, store>>
    /\ UNCHANGED <<gvars, fvars, kvars>>

\* lines 120-368: the button was not clicked, the rest of the page renders
RenderRest ==
    /\ step = NumQueries
    /\ step' = NumQueries + 1
    /\ after_refresh' = FALSE
    /\ UNCHANGED <<credentials, resource_cache, conn_usable, data_cache, store,
                   failed_in_run, last, attempts>>
    /\ UNCHANGED <<gvars, fvars, kvars>>

\* a widget interaction reruns the script from the top
Rerun ==
    /\ step = NumQueries + 1
    /\ step' = 0
    /\ failed_in_run' = FALSE
    /\ last' = NoLast
    /\ UNCHANGED <<credentials, resource_cache, conn_usable, data_cache, store,
                   after_refresh, attempts>>
    /\ UNCHANGED <<gvars, fvars, kvars>>

\* time passes: every cached result ages
Tick ==
    /\ \E q \in Queries : data_cache[q].present /\ data_cache[q].age < TTL
    /\ data_cache' = [q \in Queries |->
                         IF data_cache[q].present
                         THEN [data_cache[q] EXCEPT
                                  !.age = IF @ + HalfTTL >= TTL THEN TTL ELSE @ + HalfTTL]
                         ELSE data_cache[q]]
    /\ UNCHANGED <<credentials, resource_cache, conn_usable, store, step,
                   after_refresh, failed_in_run, last, attempts>>
    /\ UNCHANGED <<gvars, fvars, kvars>>

\* the pipeline that feeds the store loads new data
StoreUpdate ==
    /\ \E s \in StoreContents \ {store} : store' = s
    /\ UNCHANGED <<credentials, resource_cache, conn_usable, data_cache, step,
                   after_refresh, failed_in_run, last, attempts>>
    /\ UNCHANGED <<gvars, fvars, kvars>>

\* the server closes the connection the cache holds
ConnectionLost ==
    /\ resource_cache = "conn"
    /\ conn_usable
    /\ conn_usable' = FALSE
    /\ UNCHANGED <<credentials, resource_cache, data_cache, store, step,
                   after_refresh, failed_in_run, last, attempts>>
    /\ UNCHANGED <<gvars, fvars, kvars>>

CacheIdle ==
    /\ credentials = TRUE
    /\ resource_cache = "empty"
    /\ conn_usable = TRUE
    /\ data_cache = <<>>
    /\ store = "old"
    /\ step = 0
    /\ after_refresh = FALSE
    /\ failed_in_run = FALSE
    /\ last = NoLast
    /\ attempts = 0

(***************************************************************************)
(* Specifications.  Each runs one part of the page script and leaves the   *)
(* variables of the other parts as they are.                               *)
(***************************************************************************)
GroupsInit == GroupsIdle /\ FilterIdle /\ CorrIdle /\ CacheIdle

SpecGroups == GroupsInit /\ [][GroupsNext]_vars

\* The interpreter runs the loop to its end: each step is taken when enabled.
LiveGroups ==
    /\ GroupsInit
    /\ [][GroupsNext]_vars
    /\ WF_vars(get_period_groups_loop)
    /\ WF_vars(get_period_groups_return)

FilterInit ==
    /\ GroupsIdle
    /\ CorrIdle
    /\ CacheIdle
    /\ df \in FilterInputs
    /\ selected_years_final \in SUBSET FilterYears
    /\ df_filtered = EmptyFrame
    /\ df_refiltered = EmptyFrame
    /\ fpc = "start"

FilterNext ==
    \/ FilterOnce
    \/ FilterAgain

SpecFilter == FilterInit /\ [][FilterNext]_vars

CorrInit ==
    /\ GroupsIdle
    /\ FilterIdle
    /\ CacheIdle
    /\ \E obs \in [IndicatorNames -> SeriesSet] :
          indicator_options_corr =
              [name \in IndicatorNames |->
                  filter_df_by_years(fetched_frame(ValueColumn[name], obs[name]), AllYears)]
    /\ indicator1_name = "-"
    /\ indicator2_name = "-"
    /\ df_merged = NoFrame
    /\ col_name1 = "-"
    /\ col_name2 = "-"
    /\ correlation = NoCoefficient
    /\ shown = "nothing"
    /\ prev = [indicator1_name |-> "-", indicator2_name |-> "-",
               correlation |-> NoCoefficient, shown |-> "nothing"]

CorrNext ==
    \/ CorrelationSection
    \/ CorrelationUnavailable

SpecCorr == CorrInit /\ [][CorrNext]_vars

CacheInit ==
    /\ GroupsIdle
    /\ FilterIdle
    /\ CorrIdle
    /\ credentials \in BOOLEAN
    /\ resource_cache = "empty"
    /\ conn_usable = TRUE
    /\ data_cache = [q \in Queries |-> Absent]
    /\ store = "old"
    /\ step = 0
    /\ after_refresh = FALSE
    /\ failed_in_run = FALSE
    /\ last = NoLast
    /\ attempts = 0

CacheNext ==
    \/ Fetch
    \/ RefreshClicked
    \/ RenderRest
    \/ Rerun
    \/ Tick
    \/ StoreUpdate
    \/ ConnectionLost

SpecCache == CacheInit /\ [][CacheNext]_vars

(***************************************************************************)
(* Claims about get_period_groups                                          *)
(***************************************************************************)
GroupYears(i) == SeqRange(groups[i][2])

Returned == pc = "done"

\* C1: for non-empty years and group_size >= 1, every input year is in
\* exactly one returned group, each group is a non-empty run of consecutive
\* years, no two groups share a year, and every year of a group is greater
\* than every year of the groups after it.
C1_Partition ==
    (Returned /\ years # {} /\ group_size >= 1) =>
        /\ \A y \in years :
              Cardinality({i \in 1 .. Len(groups) : y \in GroupYears(i)}) = 1
        /\ \A i \in 1 .. Len(groups) :
              /\ Len(groups[i][2]) >= 1
              /\ \A k \in 1 .. (Len(groups[i][2]) - 1) :
                    groups[i][2][k + 1] = groups[i][2][k] + 1
        /\ \A i, j \in 1 .. Len(groups) :
              i < j => /\ GroupYears(i) \cap GroupYears(j) = {}
                       /\ \A a \in GroupYears(i), b \in GroupYears(j) : a > b

\* A call with gaps in the years, a group size that does not divide the
\* span, and more than one group returned.
C1_Witness ==
    /\ Returned
    /\ years = {FirstYear, FirstYear + 2, FirstYear + 3}
    /\ group_size = 3
    /\ Len(groups) = 2

\* C6: every returned group is labelled "{start}-{end}" with start and end
\* its smallest and largest year, except that a group of a single year is
\* labelled with just that year.
C6_Labels ==
    Returned =>
        \A i \in 1 .. Len(groups) :
            GroupYears(i) # {} =>
                LET s == SetMin(GroupYears(i))
                    e == SetMax(GroupYears(i))
                IN  groups[i][1] = IF s = e THEN ToString(s)
                                   ELSE ToString(s) \o "-" \o ToString(e)

\* C6 as amended: every returned group is labelled "{start}-{end}" with start
\* and end its smallest and largest year, a group of a single year included:
\* its label is "{year}-{year}".
C6_LabelsAmended ==
    Returned =>
        \A i \in 1 .. Len(groups) :
            /\ GroupYears(i) # {}
            /\ groups[i][1] = ToString(SetMin(GroupYears(i))) \o "-"
                                  \o ToString(SetMax(GroupYears(i)))

\* A call returned a group of two years followed by a group of one year.
C6_Witness ==
    /\ Returned
    /\ Len(groups) = 2
    /\ Len(groups[1][2]) = 2
    /\ Len(groups[2][2]) = 1
    /\ groups[2][1] = ToString(min_year) \o "-" \o ToString(min_year)

\* C9, first half: the result is empty when years is empty or group_size < 1.
C9_EmptyResult ==
    (Returned /\ (years = {} \/ group_size < 1)) => groups = <<>>

\* C9: get_period_groups returns the empty sequence whenever years is empty
\* or group_size < 1, and every call returns: a call that has entered the
\* loop leaves it.
C9_EmptyAndTerminates ==
    /\ [](C9_EmptyResult)
    /\ (pc = "loop") ~> (pc = "done")

\* A call with years to group and a group size below 1 has returned.
C9_Witness ==
    /\ Returned
    /\ years = YearSet
    /\ group_size < 1
    /\ groups = <<>>

(***************************************************************************)
(* Claims about filter_df_by_years                                         *)
(***************************************************************************)
Observations(d) ==
    {<<d.rows[i]["data_referencia"], d.rows[i]["valor"]>> : i \in 1 .. Len(d.rows)}

YearIsMember(r, ys) == r["ano"].k \in {"num", "str"} /\ r["ano"].v \in ys

Filtered == fpc \in {"once", "twice"}

InClaimDomain == ~empty(df) /\ "ano" \in SeqRange(df.columns)

\* C8: for a non-empty series with a year field the filter returns exactly
\* the observations whose year is a member of years (a missing or
\* non-numeric year excludes the row), in ascending order of timestamp, and
\* filtering the result again by the same years returns the same series.
C8_Filter ==
    (Filtered /\ InClaimDomain) =>
        /\ Observations(df_filtered) =
              {<<df.rows[i]["data_referencia"], df.rows[i]["valor"]>> :
                  i \in {j \in 1 .. Len(df.rows) :
                            YearIsMember(df.rows[j], selected_years_final)}}
        /\ Len(df_filtered.rows) = Cardinality(Observations(df_filtered))
        /\ \A i \in 1 .. (Len(df_filtered.rows) - 1) :
              df_filtered.rows[i]["data_referencia"]
                  < df_filtered.rows[i + 1]["data_referencia"]
        /\ fpc = "twice" => df_refiltered = df_filtered

\* An unsorted series holding a wanted year, an unwanted year, a missing
\* year and a non-numeric year has been filtered twice, and rows remain.
C8_Witness ==
    /\ fpc = "twice"
    /\ InClaimDomain
    /\ Len(df.rows) = 3
    /\ df.rows[1]["data_referencia"] > df.rows[2]["data_referencia"]
    /\ \E i \in 1 .. 3 : df.rows[i]["ano"] = NaN
    /\ \E i \in 1 .. 3 : df.rows[i]["ano"] = Num(FirstYear + 1)
    /\ selected_years_final = {FirstYear}
    /\ Len(df_filtered.rows) = 1

(***************************************************************************)
(* Claims about the correlation section                                    *)
(***************************************************************************)
DaysOf(name) ==
    {indicator_options_corr[name].rows[i]["data_referencia"] :
        i \in 1 .. Len(indicator_options_corr[name].rows)}

CommonDays == DaysOf(indicator1_name) \cap DaysOf(indicator2_name)

Merged == indicator1_name # "-"

\* C2: the coefficient shown for the pair (A, B) is computed over the inner
\* join of the two series on identical timestamps, and the two columns fed
\* to it are the value column of A and the value column of B.
C2_ValueColumns ==
    (Merged /\ shown = "metric") =>
        /\ SeqRange(df_merged.index) = CommonDays
        /\ Len(df_merged.index) = Cardinality(CommonDays)
        /\ col_name1 = ValueColumn[indicator1_name]
        /\ col_name2 = ValueColumn[indicator2_name]

\* C3: the coefficient shown with a first and b second equals the
\* coefficient shown with b first and a second (both being numbers).
C3_Symmetric ==
    (/\ Merged
     /\ shown = "metric"
     /\ prev.shown = "metric"
     /\ prev.indicator1_name = indicator2_name
     /\ prev.indicator2_name = indicator1_name
     /\ ~correlation.nan
     /\ ~prev.correlation.nan) =>
        correlation = prev.correlation

\* C7: with fewer than 2 common timestamps the section shows the
\* insufficient-data warning and no coefficient; a coefficient is shown only
\* when the join has at least 2 rows.
C7_InsufficientData ==
    Merged =>
        /\ Cardinality(CommonDays) < 2 =>
              /\ shown = "warning_insufficient_common_data"
              /\ correlation = NoCoefficient
        /\ shown = "metric" => Cardinality(CommonDays) >= 2

\* Two series with data that share exactly one timestamp were selected and
\* the warning was shown.
C7_Witness ==
    /\ Merged
    /\ Cardinality(CommonDays) = 1
    /\ Cardinality(DaysOf(indicator1_name)) >= 2
    /\ shown = "warning_insufficient_common_data"

(***************************************************************************)
(* Claims about the caches                                                 *)
(***************************************************************************)
\* the step is the call fetch_data(query q) of the run
FetchOf(q) == step = q - 1 /\ step' = q

\* pd.read_sql_query was called: the query went to the store
RoundTrip(how) == how \in {"data", "query_error", "connection_error"}

\* a result of query q stored less than 3600 time units ago, with no
\* refresh since, answers the call: same data, no round trip
ServedFromCache(q) ==
    (data_cache[q].present /\ data_cache[q].age < 3600) =>
        /\ ~RoundTrip(last'.how)
        /\ last'.df = data_cache[q].df

\* C4: a fetch whose query text was fetched less than 3600 time units
\* earlier with no refresh in between returns the earlier data without a
\* store round trip; the first fetch of a query after a manual refresh
\* issues a new store round trip.
C4_FetchCaching ==
    [][\A q \in Queries :
          FetchOf(q) =>
              /\ ServedFromCache(q)
              /\ after_refresh => RoundTrip(last'.how)]_vars

\* C4 as amended: the first fetch of a query after a manual refresh is not
\* answered from the cache: it runs the body of fetch_data, asks for the
\* connection, and issues a store round trip exactly when it gets one.
C4_FetchCachingAmended ==
    [][\A q \in Queries :
          FetchOf(q) =>
              /\ ServedFromCache(q)
              /\ after_refresh =>
                    /\ last'.found = "absent"
                    /\ last'.how # "hit"
                    /\ RoundTrip(last'.how) <=> resource_cache' = "conn"]_vars

\* In the rerun after a refresh, with the store unreachable or the
\* credentials missing, the first query was fetched: the cache did not
\* answer, the body ran, and no round trip was made.
C4_Witness ==
    /\ after_refresh
    /\ step = 1
    /\ last.found = "absent"
    /\ last.how = "no_connection"
    /\ resource_cache = "None"

\* C5: within one run, once the fetch of an indicator has failed with a
\* query error, the fetches of the other indicators issued after it still
\* return their data: they are answered from the cache, or their query runs
\* and fails only on its own account.
C5_IndependentFetches ==
    [][\A q \in Queries :
          (FetchOf(q) /\ failed_in_run) =>
              last'.how \in {"hit", "data", "query_error"}]_vars

\* C10: the outcome of a connection attempt is cached with no expiry, a
\* failed one included: between two refreshes at most one attempt is made,
\* and once an attempt has been made its outcome is in the cache.
C10_OneAttempt ==
    /\ attempts <= 1
    /\ attempts = 1 => resource_cache # "empty"
    /\ resource_cache = "None" => attempts = 1

\* The attempt failed, a cached query result expired, the query ran again
\* and found no connection, and no second attempt was made.
C10_Witness ==
    /\ resource_cache = "None"
    /\ attempts = 1
    /\ last.found = "expired"
    /\ last.how = "no_connection"

====
